---- MODULE Spec2Model ----
(***************************************************************************)
(* Model of churon's inference session manager (src/rust/src/lib.rs):      *)
(* provider resolution, input validation, the run pipeline and model load. *)
(*                                                                         *)
(* Strings that the code inspects character by character (provider names,  *)
(* which go through to_lowercase) are sequences of one-character strings.  *)
(* Strings that the code only compares or tests for emptiness (tensor      *)
(* names, paths) are TLA+ strings.                                         *)
(***************************************************************************)
EXTENDS Integers, Sequences, FiniteSets, TLC

\* ------------------------------------------------------------------------
\* Bounds of the model
\* ------------------------------------------------------------------------
MaxProviders == 3
MaxBag == 3
MaxRunBag == 2
NumThreads == 2
MaxLoads == 2
MaxData == 4
MaxRank == 2
MaxShapeRank == 3
MaxOutputs == 3

\* ------------------------------------------------------------------------
\* Results: ChurOnResult<T>
\* ------------------------------------------------------------------------
Ok(v) == [ok |-> TRUE, value |-> v]

Err(k, m, a) == [ok |-> FALSE, kind |-> k, msg |-> m, arg |-> a]

NoValue == [none |-> TRUE]

\* A panic (Result::unwrap() on an Err, an arithmetic overflow in a build
\* with overflow checks): the call returns no ChurOnError and the panic
\* unwinds through every caller.
Panic(m, a) == [ok |-> FALSE, kind |-> "panic", msg |-> m, arg |-> a]

Range(s) == {s[i] : i \in 1..Len(s)}

SeqsUpTo(S, n) == UNION {[1..k -> S] : k \in 0..n}

\* ------------------------------------------------------------------------
\* str::to_lowercase on ASCII text
\* ------------------------------------------------------------------------
UpperCase == <<"A","B","C","D","E","F","G","H","I","J","K","L","M",
               "N","O","P","Q","R","S","T","U","V","W","X","Y","Z">>

LowerCase == <<"a","b","c","d","e","f","g","h","i","j","k","l","m",
               "n","o","p","q","r","s","t","u","v","w","x","y","z">>

char_to_lowercase(c) ==
    IF \E i \in 1..26 : UpperCase[i] = c
    THEN LowerCase[CHOOSE i \in 1..26 : UpperCase[i] = c]
    ELSE c

to_lowercase_identity(s) == s

to_lowercase(s) == [i \in 1..Len(s) |-> char_to_lowercase(s[i])]

\* The provider names the resolver recognises (match arms, lib.rs 432-437).
N_cuda == <<"c","u","d","a">>
N_tensorrt == <<"t","e","n","s","o","r","r","t">>
N_directml == <<"d","i","r","e","c","t","m","l">>
N_onednn == <<"o","n","e","d","n","n">>
N_coreml == <<"c","o","r","e","m","l">>
N_cpu == <<"c","p","u">>

KnownNames == {N_cuda, N_tensorrt, N_directml, N_onednn, N_coreml, N_cpu}

\* ExecutionProvider variant selected by a lower-cased name.
ProviderOf(lc) ==
    CASE lc = N_cuda -> "CUDA"
      [] lc = N_tensorrt -> "TensorRT"
      [] lc = N_directml -> "DirectML"
      [] lc = N_onednn -> "OneDNN"
      [] lc = N_coreml -> "CoreML"
      [] lc = N_cpu -> "CPU"

\* The for loop of get_execution_providers: push one provider per name, in
\* order, and return the Provider error at the first unrecognised name.
RECURSIVE push_providers(_, _, _)
push_providers(provider_names, i, execution_providers) ==
    IF i > Len(provider_names) THEN Ok(execution_providers)
    ELSE LET provider_name == provider_names[i]
             lc == to_lowercase(provider_name)
         IN  IF lc \in KnownNames
             THEN push_providers(provider_names, i + 1,
                                 Append(execution_providers, ProviderOf(lc)))
             ELSE Err("Provider", "Unknown execution provider: ", provider_name)

\* "Always add CPU as fallback if not already present"
add_cpu_fallback_never(eps) == eps

add_cpu_fallback_first(eps) ==
    IF \E j \in 1..Len(eps) : eps[j] = "CPU" THEN eps ELSE <<"CPU">> \o eps

add_cpu_fallback(eps) ==
    IF \E j \in 1..Len(eps) : eps[j] = "CPU" THEN eps ELSE Append(eps, "CPU")

DefaultProviders == <<"CUDA", "TensorRT", "DirectML", "OneDNN", "CoreML", "CPU">>

\* Option<Vec<String>>
None == [some |-> FALSE]

Some(v) == [some |-> TRUE, v |-> v]

get_execution_providers(providers) ==
    IF providers.some
    THEN LET pushed == push_providers(providers.v, 1, <<>>)
         IN  IF pushed.ok THEN Ok(add_cpu_fallback(pushed.value)) ELSE pushed
    ELSE Ok(DefaultProviders)

\* ------------------------------------------------------------------------
\* R values handed in by the caller
\* ------------------------------------------------------------------------
\* An R vector: its storage type, its elements and its dim attribute.
Robj(t, d, dm) == [rtype |-> t, data |-> d, dim |-> dm]

\* An R list: the elements and the names attribute (None when the list has
\* no names attribute; otherwise one name per element, "" for an element
\* without a name).
RList(names, values) == [names |-> names, values |-> values]

\* List::names().unwrap_or_default(): the names, or an empty iterator.
names_unwrap_or_default(inputs) ==
    IF inputs.names.some THEN inputs.names.v ELSE <<>>

\* Position of the first element of s satisfying "not in allowed", or 0.
FirstNotIn(s, allowed) ==
    IF \E i \in 1..Len(s) : s[i] \notin allowed
    THEN CHOOSE i \in 1..Len(s) :
            /\ s[i] \notin allowed
            /\ \A j \in 1..(i - 1) : s[j] \in allowed
    ELSE 0

validate_inputs_superset(self_input_names, inputs) ==
    LET provided_input_names == names_unwrap_or_default(inputs)
        missing == FirstNotIn(self_input_names, Range(provided_input_names))
    IN  IF Len(inputs.values) = 0
        THEN Err("Validation", "No input data provided", NoValue)
        ELSE IF Len(provided_input_names) = 0
        THEN Err("Validation", "Input data must be a named list", NoValue)
        ELSE IF missing # 0
        THEN Err("Validation", "Required input not provided", self_input_names[missing])
        ELSE Ok(NoValue)

validate_inputs(self_input_names, inputs) ==
    LET provided_input_names == names_unwrap_or_default(inputs)
        missing == FirstNotIn(self_input_names, Range(provided_input_names))
        unexpected == FirstNotIn(provided_input_names, Range(self_input_names))
    IN  IF Len(inputs.values) = 0
        THEN Err("Validation", "No input data provided", NoValue)
        ELSE IF Len(provided_input_names) = 0
        THEN Err("Validation", "Input data must be a named list", NoValue)
        ELSE IF missing # 0
        THEN Err("Validation", "Required input not provided", self_input_names[missing])
        ELSE IF unexpected # 0
        THEN Err("Validation", "Unexpected input provided", provided_input_names[unexpected])
        ELSE Ok(NoValue)

\* ------------------------------------------------------------------------
\* Numeric conversion
\* ------------------------------------------------------------------------
\* Doubles are modelled by the integer-valued ones. "x as f32" rounds to a
\* 24-bit significand, ties to even; magnitudes below 2^24 are exact.
RECURSIVE f32_ulp(_, _)
f32_ulp(mag, u) == IF mag < 16777216 * u THEN u ELSE f32_ulp(mag, 2 * u)

as_f32(x) ==
    LET mag == IF x < 0 THEN -x ELSE x
        u == f32_ulp(mag, 1)
        q == mag \div u
        r == mag % u
        up == (2 * r > u) \/ (2 * r = u /\ q % 2 = 1)
        rounded == (IF up THEN q + 1 ELSE q) * u
    IN  IF x < 0 THEN -rounded ELSE rounded

\* usize. The lengths and dimensions used here are far below 2^31 and are
\* written as themselves; the one large dimension the conversions are tried
\* with, 2^63 = isize::MAX + 1, is written TwoPow63, an integer that no
\* length and no other dimension equals.
TwoPow63 == -63

\* usize::checked_mul on these values: None when the product passes 2^64 - 1.
checked_mul(a, b) ==
    IF a = 0 \/ b = 0 THEN Some(0)
    ELSE IF a = TwoPow63 THEN (IF b = 1 THEN Some(TwoPow63) ELSE None)
    ELSE IF b = TwoPow63 THEN (IF a = 1 THEN Some(TwoPow63) ELSE None)
    ELSE Some(a * b)

\* usize::wrapping_mul on these values: the product modulo 2^64, so
\* 2^63 * k is 2^63 for odd k and 0 for even k, and 2^63 * 2^63 is 0.
wrapping_mul(a, b) ==
    IF a = 0 \/ b = 0 THEN 0
    ELSE IF a = TwoPow63 /\ b = TwoPow63 THEN 0
    ELSE IF a = TwoPow63 THEN (IF b % 2 = 1 THEN TwoPow63 ELSE 0)
    ELSE IF b = TwoPow63 THEN (IF a % 2 = 1 THEN TwoPow63 ELSE 0)
    ELSE a * b

\* shape.iter().product() over the first n dimensions: a fold of "*" from 1,
\* in order. On overflow a build with overflow checks panics and a build
\* without them wraps.
RECURSIVE product_upto(_, _, _)
product_upto(shape, n, overflow_checks) ==
    IF n = 0 THEN Ok(1)
    ELSE LET acc == product_upto(shape, n - 1, overflow_checks)
         IN  IF ~acc.ok THEN acc
             ELSE IF checked_mul(acc.value, shape[n]).some
             THEN Ok(checked_mul(acc.value, shape[n]).v)
             ELSE IF overflow_checks
             THEN Panic("attempt to multiply with overflow", NoValue)
             ELSE Ok(wrapping_mul(acc.value, shape[n]))

product(shape, overflow_checks) == product_upto(shape, Len(shape), overflow_checks)

\* ArrayD<f32>: a shape and a flat row-major buffer.
ArrayD(shape, data) == [shape |-> shape, data |-> data]

\* The product of the non-zero dimensions among the first n, checked.
RECURSIVE size_nonzero_upto(_, _)
size_nonzero_upto(shape, n) ==
    IF n = 0 THEN Some(1)
    ELSE LET acc == size_nonzero_upto(shape, n - 1)
         IN  IF ~acc.some THEN None
             ELSE IF shape[n] = 0 THEN acc
             ELSE checked_mul(acc.v, shape[n])

\* ArrayD::from_shape_vec(IxDyn(shape), data): Overflow when the product of
\* the non-zero dimensions overflows usize or exceeds isize::MAX, OutOfBounds
\* when the shape has more elements than the data, IncompatibleShape when it
\* has fewer.
from_shape_vec(shape, data) ==
    LET size_nonzero == size_nonzero_upto(shape, Len(shape))
        size == IF \E k \in 1..Len(shape) : shape[k] = 0 THEN 0 ELSE size_nonzero.v
    IN  IF ~size_nonzero.some \/ size_nonzero.v = TwoPow63
        THEN Err("ShapeError", "Overflow", NoValue)
        ELSE IF size > Len(data)
        THEN Err("ShapeError", "OutOfBounds", NoValue)
        ELSE IF size # Len(data)
        THEN Err("ShapeError", "IncompatibleShape", NoValue)
        ELSE Ok(ArrayD(shape, data))

\* from_shape_vec(...).map_err(|e| DataConversion("Failed to create ndarray"))
map_err_create(built) ==
    IF built.ok THEN built
    ELSE Err("DataConversion", "Failed to create ndarray", built.msg)

r_to_ndarray_f32(r_data, shape, overflow_checks) ==
    LET data == [i \in 1..Len(r_data) |-> as_f32(r_data[i])]
        total_elements == product(shape, overflow_checks)
    IN  IF ~total_elements.ok THEN total_elements
        ELSE IF Len(data) # total_elements.value
        THEN Err("DataConversion", "Data length doesn't match shape", total_elements.value)
        ELSE map_err_create(from_shape_vec(shape, data))

\* The siblings keep the element type of the R vector (Doubles as f64,
\* Integers as i32 or i64, all exact) and are otherwise the same.
r_to_ndarray_f64(r_data, shape, overflow_checks) ==
    LET data == r_data
        total_elements == product(shape, overflow_checks)
    IN  IF ~total_elements.ok THEN total_elements
        ELSE IF Len(data) # total_elements.value
        THEN Err("DataConversion", "Data length doesn't match shape", total_elements.value)
        ELSE map_err_create(from_shape_vec(shape, data))

r_to_ndarray_i32(r_data, shape, overflow_checks) ==
    LET data == r_data
        total_elements == product(shape, overflow_checks)
    IN  IF ~total_elements.ok THEN total_elements
        ELSE IF Len(data) # total_elements.value
        THEN Err("DataConversion", "Data length doesn't match shape", total_elements.value)
        ELSE map_err_create(from_shape_vec(shape, data))

r_to_ndarray_i64(r_data, shape, overflow_checks) ==
    LET data == r_data
        total_elements == product(shape, overflow_checks)
    IN  IF ~total_elements.ok THEN total_elements
        ELSE IF Len(data) # total_elements.value
        THEN Err("DataConversion", "Data length doesn't match shape", total_elements.value)
        ELSE map_err_create(from_shape_vec(shape, data))

\* Dispatch of a conversion call on the function called.
r_to_ndarray(fn, r_data, shape, overflow_checks) ==
    CASE fn = "r_to_ndarray_f32" -> r_to_ndarray_f32(r_data, shape, overflow_checks)
      [] fn = "r_to_ndarray_f64" -> r_to_ndarray_f64(r_data, shape, overflow_checks)
      [] fn = "r_to_ndarray_i32" -> r_to_ndarray_i32(r_data, shape, overflow_checks)
      [] fn = "r_to_ndarray_i64" -> r_to_ndarray_i64(r_data, shape, overflow_checks)

\* Doubles::from_values: an R double vector without dim attribute. Widening
\* an f32 to f64 keeps its value.
ndarray_f32_to_r(array) == Ok(Robj("double", array.data, None))

ndarray_f64_to_r(array) == Ok(Robj("double", array.data, None))

\* Dispatch of a decoding call on the element type of the array.
ndarray_to_r(fn, array) ==
    CASE fn = "r_to_ndarray_f32" -> ndarray_f32_to_r(array)
      [] fn = "r_to_ndarray_f64" -> ndarray_f64_to_r(array)

\* robj.dim(), or the length as the only dimension.
get_r_array_shape(robj) ==
    IF robj.dim.some THEN Ok(robj.dim.v) ELSE Ok(<<Len(robj.data)>>)

\* ------------------------------------------------------------------------
\* TensorInfo and shape validation
\* ------------------------------------------------------------------------
TensorInfo(name, shape, data_type) == [name |-> name, shape |-> shape, data_type |-> data_type]

\* "x as usize" of an i32: a negative x wraps to a size beyond every shape
\* of the model; it is kept as x, which equals no actual size and is not 0.
as_usize(x) == x

\* expected_info.shape as usize, with -1 turned into 0.
expected_shape_usize(shape) ==
    [k \in 1..Len(shape) |-> IF shape[k] = -1 THEN 0 ELSE as_usize(shape[k])]

validate_input_data(data_shape, expected_info) ==
    LET expected_shape == expected_shape_usize(expected_info.shape)
        Mismatch(i) == expected_shape[i] # 0 /\ data_shape[i] # expected_shape[i]
    IN  IF Len(data_shape) # Len(expected_shape)
        THEN Err("Validation", "Shape dimension mismatch", Len(expected_shape))
        ELSE IF \E i \in 1..Len(data_shape) : Mismatch(i)
        THEN Err("Validation", "Shape mismatch at dimension",
                 (CHOOSE i \in 1..Len(data_shape) :
                    Mismatch(i) /\ \A j \in 1..(i - 1) : ~Mismatch(j)) - 1)
        ELSE Ok(NoValue)

\* ------------------------------------------------------------------------
\* RSession: the steps of run
\* ------------------------------------------------------------------------
validate_session(self) ==
    IF Len(self.input_names) = 0
    THEN Err("Validation", "Session has no input tensors defined", NoValue)
    ELSE IF Len(self.output_names) = 0
    THEN Err("Validation", "Session has no output tensors defined", NoValue)
    ELSE IF self.model_path = ""
    THEN Err("Validation", "Session has no model path defined", NoValue)
    ELSE Ok(NoValue)

\* iter().position(|x| x == name): 1-based here, 0 when absent.
position(s, x) ==
    IF \E i \in 1..Len(s) : s[i] = x
    THEN CHOOSE i \in 1..Len(s) : s[i] = x /\ \A j \in 1..(i - 1) : s[j] # x
    ELSE 0

\* Vec::get(idx).cloned().unwrap_or_default()
get_or_default(v, idx) == IF idx \in 1..Len(v) THEN v[idx] ELSE <<>>

\* expected_shape as usize, a dynamic dimension (-1) becoming 1.
shape_usize(expected_shape) ==
    [k \in 1..Len(expected_shape) |->
        IF expected_shape[k] = -1 THEN 1 ELSE expected_shape[k]]

\* inputs.index(i): R's inputs[[i]], whose positions start at one; position
\* zero and positions past the end are evaluation errors.
index(inputs, i) ==
    IF i < 1
    THEN Err("EvalError", "attempt to select less than one element", i)
    ELSE IF i > Len(inputs.values)
    THEN Err("EvalError", "subscript out of bounds", i)
    ELSE Ok(inputs.values[i])

\* The loop of prepare_input_tensors over input_names.enumerate(), from the
\* pair (i, input_names[i]) on; enumerate counts from zero, so the name is
\* the (i + 1)-th of the list while the value is asked for as inputs[[i]].
RECURSIVE prepare_from(_, _, _, _, _)
prepare_from(self, inputs, i, input_tensors, overflow_checks) ==
    LET input_names == names_unwrap_or_default(inputs)
    IN  IF i + 1 > Len(input_names) THEN Ok(input_tensors)
        ELSE LET input_name_str == input_names[i + 1]
                 indexed == index(inputs, i)
                 input_robj == indexed.value
                 idx == position(self.input_names, input_name_str)
                 expected_shape == get_or_default(self.input_shapes, idx)
                 tensor == r_to_ndarray_f32(input_robj.data, shape_usize(expected_shape),
                                           overflow_checks)
             IN  IF ~indexed.ok
                 THEN Panic("called Result::unwrap() on an Err value", indexed.msg)
                 ELSE IF idx = 0
                 THEN Err("Validation", "Unknown input name", input_name_str)
                 ELSE IF input_robj.rtype # "double"
                 THEN Err("DataConversion", "Failed to convert input to numeric data",
                          input_name_str)
                 ELSE IF ~tensor.ok THEN tensor
                 ELSE prepare_from(self, inputs, i + 1,
                        [n \in DOMAIN input_tensors \cup {input_name_str} |->
                            IF n = input_name_str THEN tensor.value ELSE input_tensors[n]],
                        overflow_checks)

prepare_input_tensors(self, inputs, overflow_checks) ==
    prepare_from(self, inputs, 0, <<>>, overflow_checks)

convert_to_ort_values(tensors) ==
    Err("DataConversion", "Tensor conversion not yet implemented", NoValue)

\* Session::run of the engine: whatever the engine decides (outcome), with
\* its error mapped to Inference.
session_run(outcome, ort_inputs) ==
    IF outcome.ok THEN outcome
    ELSE Err("Inference", "Inference execution failed", NoValue)

DefaultOutputNames == <<"output_0", "output_1", "output_2", "output_3">>

\* self.output_names.get(i).cloned().unwrap_or_else(|| format!("output_{}", i))
output_name_at(self, i) ==
    IF i \in 1..Len(self.output_names) THEN self.output_names[i]
    ELSE DefaultOutputNames[i]

\* The loop of convert_outputs_to_r from engine output i on.
RECURSIVE convert_outputs_from(_, _, _, _, _)
convert_outputs_from(self, outputs, i, r_outputs, output_names) ==
    IF i > Len(outputs) THEN Ok(RList(Some(output_names), r_outputs))
    ELSE LET output == outputs[i]
             output_name == output_name_at(self, i)
         IN  IF output.etype = "f32"
             THEN convert_outputs_from(self, outputs, i + 1,
                    Append(r_outputs, ndarray_f32_to_r(output).value),
                    Append(output_names, output_name))
             ELSE IF output.etype = "f64"
             THEN convert_outputs_from(self, outputs, i + 1,
                    Append(r_outputs, ndarray_f64_to_r(output).value),
                    Append(output_names, output_name))
             ELSE Err("DataConversion", "Unsupported output data type", output_name)

\* A decoder that leaves out an output of unsupported type.
RECURSIVE convert_outputs_skipping_from(_, _, _, _, _)
convert_outputs_skipping_from(self, outputs, i, r_outputs, output_names) ==
    IF i > Len(outputs) THEN Ok(RList(Some(output_names), r_outputs))
    ELSE IF outputs[i].etype \in {"f32", "f64"}
    THEN convert_outputs_skipping_from(self, outputs, i + 1,
            Append(r_outputs, ndarray_f32_to_r(outputs[i]).value),
            Append(output_names, output_name_at(self, i)))
    ELSE convert_outputs_skipping_from(self, outputs, i + 1, r_outputs, output_names)

convert_outputs_to_r_skipping(self, outputs) ==
    convert_outputs_skipping_from(self, outputs, 1, <<>>, <<>>)

convert_outputs_to_r(self, outputs) == convert_outputs_from(self, outputs, 1, <<>>, <<>>)

\* run: the steps in program order, each "?" returning the first error.
\* steps records which of them were entered.
Ran(steps, res) == [steps |-> steps, res |-> res]

run(self, inputs, outcome, overflow_checks) ==
    LET checked == validate_session(self)
        validated == validate_inputs(self.input_names, inputs)
        input_tensors == prepare_input_tensors(self, inputs, overflow_checks)
        ort_inputs == convert_to_ort_values(input_tensors.value)
        outputs == session_run(outcome, ort_inputs.value)
    IN  IF ~checked.ok
        THEN Ran(<<"validate_session">>, checked)
        ELSE IF ~validated.ok
        THEN Ran(<<"validate_session", "validate_inputs">>, validated)
        ELSE IF ~input_tensors.ok
        THEN Ran(<<"validate_session", "validate_inputs", "prepare_input_tensors">>,
                 input_tensors)
        ELSE IF ~ort_inputs.ok
        THEN Ran(<<"validate_session", "validate_inputs", "prepare_input_tensors",
                   "convert_to_ort_values">>, ort_inputs)
        ELSE IF ~outputs.ok
        THEN Ran(<<"validate_session", "validate_inputs", "prepare_input_tensors",
                   "convert_to_ort_values", "session_run">>, outputs)
        ELSE Ran(<<"validate_session", "validate_inputs", "prepare_input_tensors",
                   "convert_to_ort_values", "session_run", "convert_outputs_to_r">>,
                 convert_outputs_to_r(self, outputs.value))

\* ------------------------------------------------------------------------
\* RSession: load
\* ------------------------------------------------------------------------
\* A tensor declared by a model: name, dimensions (None where the model
\* leaves the dimension open) and element type.
Declared(name, dimensions, ty) == [name |-> name, dimensions |-> dimensions, ty |-> ty]

\* The model files of the file system, as the engine parses them
\* (session.inputs / session.outputs). Any other path has no model.
ModelFiles ==
    [p \in {"ab.onnx", "dyn.onnx", "noin.onnx", "noout.onnx"} |->
        CASE p = "ab.onnx" ->
                [inputs |-> <<Declared("a", <<Some(2), Some(3)>>, "Float32"),
                              Declared("b", <<None, Some(2)>>, "Float32")>>,
                 outputs |-> <<Declared("out", <<None>>, "Float32")>>]
          [] p = "dyn.onnx" ->
                [inputs |-> <<Declared("x", <<None, Some(3)>>, "Float32")>>,
                 outputs |-> <<Declared("out", <<None, Some(1)>>, "Float32"),
                               Declared("aux", <<Some(2)>>, "Float64")>>]
          [] p = "noin.onnx" ->
                [inputs |-> <<>>,
                 outputs |-> <<Declared("out", <<Some(1)>>, "Float32")>>]
          [] p = "noout.onnx" ->
                [inputs |-> <<Declared("a", <<Some(2)>>, "Float32")>>,
                 outputs |-> <<>>]]

\* Environment::builder()...build().map_err(ModelLoad)
environment_build(built) ==
    IF built THEN Ok(NoValue)
    ELSE Err("ModelLoad", "Failed to build environment", NoValue)

\* dim.map(|d| d as i64).unwrap_or(-1) over the dimensions of every tensor
dims_or_minus_one(tensors) ==
    [i \in 1..Len(tensors) |->
        [k \in 1..Len(tensors[i].dimensions) |->
            IF tensors[i].dimensions[k].some THEN tensors[i].dimensions[k].v ELSE -1]]

extract_used_providers(handle) == <<"CPU">>

\* The RSession literal at the end of from_path_with_providers_internal.
new_session(handle, path) ==
    [session |-> handle,
     input_names |-> [i \in 1..Len(handle.inputs) |-> handle.inputs[i].name],
     output_names |-> [i \in 1..Len(handle.outputs) |-> handle.outputs[i].name],
     input_shapes |-> dims_or_minus_one(handle.inputs),
     output_shapes |-> dims_or_minus_one(handle.outputs),
     providers |-> extract_used_providers(handle),
     model_path |-> path]

\* The SessionBuilder chain: fault names the builder call the engine makes
\* fail ("none" when it accepts all of them), and the model file is read last.
BuilderFaults == {"none", "new", "optimization", "threads", "providers"}

build_session_lenient(path, execution_providers, fault) ==
    IF fault = "providers"
    THEN Err("Provider", "Failed to set execution providers", NoValue)
    ELSE IF path \in DOMAIN ModelFiles
    THEN Ok(new_session(ModelFiles[path], path))
    ELSE Ok(new_session([inputs |-> <<>>, outputs |-> <<>>], path))

build_session(path, execution_providers, fault) ==
    CASE fault = "new" -> Err("ModelLoad", "Failed to create session builder", NoValue)
      [] fault = "optimization" -> Err("ModelLoad", "Failed to set optimization level", NoValue)
      [] fault = "threads" -> Err("ModelLoad", "Failed to set intra threads", NoValue)
      [] fault = "providers" -> Err("Provider", "Failed to set execution providers", NoValue)
      [] OTHER ->
            IF path \in DOMAIN ModelFiles
            THEN Ok(new_session(ModelFiles[path], path))
            ELSE Err("ModelLoad", "Failed to load model from", path)

\* ------------------------------------------------------------------------
\* RSession: metadata queries
\* ------------------------------------------------------------------------
\* One TensorInfo per tensor of the engine session, in its order: the name,
\* the recorded shape at the same index (empty when there is none) narrowed
\* to i32, which keeps every dimension of the model, and the Debug text of
\* the element type.
tensor_infos(tensors, shapes) ==
    [i \in 1..Len(tensors) |->
        TensorInfo(tensors[i].name, get_or_default(shapes, i), tensors[i].ty)]

get_input_info_without_shapes(self) == tensor_infos(self.session.inputs, <<>>)

get_input_info(self) == tensor_infos(self.session.inputs, self.input_shapes)

get_output_info(self) == tensor_infos(self.session.outputs, self.output_shapes)

get_providers(self) == self.providers

get_model_path(self) == self.model_path

\* ------------------------------------------------------------------------
\* State
\* ------------------------------------------------------------------------
VARIABLES
    call,           \* a pending call of a pure function, with its arguments
    ret,            \* what that call returned (NoValue before it ran)
    pc,             \* per thread: where it is inside from_path_with_providers_internal
    loadArgs,       \* per thread: (path, providers) of the load in progress
    envOk,          \* per thread: "none", or how its Environment build ended
    execProviders,  \* per thread: result of get_execution_providers
    session,        \* per thread: the RSession it owns, or NoValue
    result,         \* per thread: outcome of its last load or run
    envBuilds       \* number of Environment::builder().build() calls so far

vars == <<call, ret, pc, loadArgs, envOk, execProviders, session, result, envBuilds>>

pureVars == <<call, ret>>

sessionVars == <<pc, loadArgs, envOk, execProviders, session, result, envBuilds>>

Threads == 1..NumThreads

\* Nothing loaded, nobody inside a load.
InitSessions ==
    /\ pc = [t \in Threads |-> "idle"]
    /\ loadArgs = [t \in Threads |-> NoValue]
    /\ envOk = [t \in Threads |-> "none"]
    /\ execProviders = [t \in Threads |-> NoValue]
    /\ session = [t \in Threads |-> NoValue]
    /\ result = [t \in Threads |-> NoValue]
    /\ envBuilds = 0

\* ------------------------------------------------------------------------
\* Provider resolution on its own
\* ------------------------------------------------------------------------
N_CPU_upper == <<"C","P","U">>
N_Cuda_mixed == <<"C","u","d","A">>
N_bogus == <<"b","o","g","u","s">>

ProviderNameInputs ==
    {N_cpu, N_CPU_upper, N_cuda, N_Cuda_mixed, N_tensorrt, N_directml,
     N_onednn, N_coreml, N_bogus}

ProviderRequests ==
    {None} \cup {Some(s) : s \in SeqsUpTo(ProviderNameInputs, MaxProviders)}

InitProviders ==
    /\ call \in {[fn |-> "get_execution_providers", providers |-> r] : r \in ProviderRequests}
    /\ ret = NoValue
    /\ InitSessions

CallGetExecutionProviders ==
    /\ call.fn = "get_execution_providers"
    /\ ret = NoValue
    /\ ret' = get_execution_providers(call.providers)
    /\ UNCHANGED <<call, sessionVars>>

NextProviders == CallGetExecutionProviders

SpecProviders == InitProviders /\ [][NextProviders]_vars

Resolved == call.fn = "get_execution_providers" /\ ret # NoValue

\* C1: every successful provider resolution (None, Some of an empty list,
\* Some of recognised names) returns a non-empty list that contains CPU.
C1_ResolvedHasCpu ==
    (Resolved /\ ret.ok) => (Len(ret.value) > 0 /\ "CPU" \in Range(ret.value))

C1_Witness ==
    /\ Resolved
    /\ call.providers = Some(<<>>)
    /\ ret.ok
    /\ ret.value = <<"CPU">>

\* The provider each name of the input alphabet stands for, written out
\* from the interface description (names are case-insensitive).
RequestedProvider(name) ==
    CASE name \in {N_cpu, N_CPU_upper} -> "CPU"
      [] name \in {N_cuda, N_Cuda_mixed} -> "CUDA"
      [] name = N_tensorrt -> "TensorRT"
      [] name = N_directml -> "DirectML"
      [] name = N_onednn -> "OneDNN"
      [] name = N_coreml -> "CoreML"
      [] OTHER -> "unknown"

AllRecognized(names) ==
    \A i \in 1..Len(names) : RequestedProvider(names[i]) # "unknown"

CpuRequested(names) ==
    \E i \in 1..Len(names) : RequestedProvider(names[i]) = "CPU"

\* C2: for Some(names) of recognised names the resolved list is the requested
\* providers in request order, followed by CPU as last element iff CPU was
\* not requested; ["cuda"] gives [CUDA, CPU] and ["cpu"] gives [CPU].
C2_RequestOrderThenCpu ==
    (Resolved /\ call.providers.some /\ AllRecognized(call.providers.v)) =>
        LET names == call.providers.v
            n == Len(names)
        IN  /\ ret.ok
            /\ \A i \in 1..n : ret.value[i] = RequestedProvider(names[i])
            /\ IF CpuRequested(names)
               THEN Len(ret.value) = n
               ELSE Len(ret.value) = n + 1 /\ ret.value[n + 1] = "CPU"
            /\ (names = <<N_cuda>> => ret.value = <<"CUDA", "CPU">>)
            /\ (names = <<N_cpu>> => ret.value = <<"CPU">>)

C2_Witness ==
    /\ Resolved
    /\ call.providers = Some(<<N_tensorrt, N_cuda>>)
    /\ ret.ok
    /\ ret.value = <<"TensorRT", "CUDA", "CPU">>

Count(s, x) == Cardinality({i \in 1..Len(s) : s[i] = x})

\* C3: resolution deduplicates: a name requested more than once (in any
\* letter case) yields its provider exactly once, at the position of its
\* first occurrence, and CPU appears exactly once in every resolved list.
C3_Deduplicated ==
    (Resolved /\ ret.ok) =>
        /\ \A x \in Range(ret.value) : Count(ret.value, x) = 1
        /\ Count(ret.value, "CPU") = 1

\* C4: names are matched case-insensitively against the six known names; if
\* any requested name is unknown the whole resolution fails with a Provider
\* error naming the first unknown provider, and no list is returned.
C4_UnknownFailsWhole ==
    (Resolved /\ call.providers.some) =>
        LET names == call.providers.v
        IN  /\ ret.ok <=> AllRecognized(names)
            /\ ~ret.ok =>
                 /\ ret.kind = "Provider"
                 /\ "value" \notin DOMAIN ret
                 /\ \E i \in 1..Len(names) :
                      /\ RequestedProvider(names[i]) = "unknown"
                      /\ \A j \in 1..(i - 1) : RequestedProvider(names[j]) # "unknown"
                      /\ ret.arg = names[i]

C4_Witness ==
    /\ Resolved
    /\ call.providers = Some(<<N_Cuda_mixed, N_bogus, N_CPU_upper>>)
    /\ ~ret.ok
    /\ ret.kind = "Provider"
    /\ ret.arg = N_bogus

\* ------------------------------------------------------------------------
\* Input validation on its own
\* ------------------------------------------------------------------------
TensorNames == {"a", "b", "c"}

\* Declared input names of a session: distinct names, in engine order.
DeclaredLists(n) ==
    {s \in SeqsUpTo(TensorNames, n) : \A i, j \in 1..Len(s) : s[i] = s[j] => i = j}

OneDouble == Robj("double", <<1>>, None)

\* Bags a caller can build: a list without names attribute of any length,
\* or a non-empty list whose elements are named or left unnamed ("").
ValidationBags ==
    {RList(None, [i \in 1..k |-> OneDouble]) : k \in 0..MaxBag}
    \cup {RList(Some(ns), [i \in 1..Len(ns) |-> OneDouble]) :
            ns \in SeqsUpTo(TensorNames \cup {""}, MaxBag) \ {<<>>}}

InitValidate ==
    /\ call \in {[fn |-> "validate_inputs", input_names |-> d, inputs |-> b] :
                    d \in DeclaredLists(MaxBag - 1), b \in ValidationBags}
    /\ ret = NoValue
    /\ InitSessions

CallValidateInputs ==
    /\ call.fn = "validate_inputs"
    /\ ret = NoValue
    /\ ret' = validate_inputs(call.input_names, call.inputs)
    /\ UNCHANGED <<call, sessionVars>>

NextValidate == CallValidateInputs

SpecValidate == InitValidate /\ [][NextValidate]_vars

Validated == call.fn = "validate_inputs" /\ ret # NoValue

BagNames(b) == IF b.names.some THEN Range(b.names.v) ELSE {}

\* C5: validate_inputs succeeds iff the bag is non-empty, is named, and its
\* set of names equals the declared input names; otherwise it fails with a
\* Validation error; declared {a, b} with bag {a} fails as missing b, and
\* with bag {a, b, c} fails as unexpected c.
C5_ClosedWorldExactMatch ==
    Validated =>
        LET d == call.input_names
            b == call.inputs
        IN  /\ ret.ok <=> /\ Len(b.values) > 0
                          /\ b.names.some
                          /\ BagNames(b) = Range(d)
            /\ ~ret.ok => ret.kind = "Validation"
            /\ (~ret.ok /\ ret.msg = "Required input not provided") =>
                    (ret.arg \in Range(d) /\ ret.arg \notin BagNames(b))
            /\ (~ret.ok /\ ret.msg = "Unexpected input provided") =>
                    (ret.arg \in BagNames(b) /\ ret.arg \notin Range(d))
            /\ (d = <<"a", "b">> /\ b.names = Some(<<"a">>)) =>
                    (~ret.ok /\ ret.msg = "Required input not provided" /\ ret.arg = "b")
            /\ (d = <<"a", "b">> /\ b.names = Some(<<"a", "b", "c">>)) =>
                    (~ret.ok /\ ret.msg = "Unexpected input provided" /\ ret.arg = "c")
            /\ (Len(b.values) > 0 /\ ~b.names.some) =>
                    (~ret.ok /\ ret.msg = "Input data must be a named list")

C5_Witness ==
    /\ Validated
    /\ call.input_names = <<"a", "b">>
    /\ call.inputs.names = Some(<<"a", "b", "c">>)
    /\ ~ret.ok
    /\ ret.arg = "c"

\* ------------------------------------------------------------------------
\* Loading sessions, from several threads
\* ------------------------------------------------------------------------
LoadPaths == {"missing.onnx", "ab.onnx"}

LoadRequests == {None, Some(<<N_cuda>>), Some(<<N_Cuda_mixed, N_bogus>>)}

Loaded(steps, res, fault) == [op |-> "load", steps |-> steps, res |-> res, fault |-> fault]

\* from_path_with_providers_internal is entered and calls
\* Environment::builder()...build().
LoadCall(t, path, providers) ==
    /\ pc[t] = "idle"
    /\ envBuilds < MaxLoads
    /\ pc' = [pc EXCEPT ![t] = "env_build"]
    /\ loadArgs' = [loadArgs EXCEPT ![t] = [path |-> path, providers |-> providers]]
    /\ envOk' = [envOk EXCEPT ![t] = "none"]
    /\ execProviders' = [execProviders EXCEPT ![t] = NoValue]
    /\ session' = [session EXCEPT ![t] = NoValue]
    /\ result' = [result EXCEPT ![t] = NoValue]
    /\ envBuilds' = envBuilds + 1
    /\ UNCHANGED pureVars

\* build() returns; its error is returned by "?" as a ModelLoad error.
EnvBuildReturn(t, built) ==
    /\ pc[t] = "env_build"
    /\ LET environment == environment_build(built)
       IN  /\ envOk' = [envOk EXCEPT ![t] = IF built THEN "ok" ELSE "failed"]
           /\ IF environment.ok
              THEN /\ pc' = [pc EXCEPT ![t] = "resolve"]
                   /\ UNCHANGED result
              ELSE /\ pc' = [pc EXCEPT ![t] = "idle"]
                   /\ result' = [result EXCEPT ![t] =
                                    Loaded(<<"environment_build">>, environment, "none")]
    /\ UNCHANGED <<loadArgs, execProviders, session, envBuilds, pureVars>>

\* Self::get_execution_providers(providers)?
ResolveProviders(t) ==
    /\ pc[t] = "resolve"
    /\ LET execution_providers == get_execution_providers(loadArgs[t].providers)
       IN  IF execution_providers.ok
           THEN /\ pc' = [pc EXCEPT ![t] = "build_session"]
                /\ execProviders' = [execProviders EXCEPT ![t] = execution_providers.value]
                /\ UNCHANGED result
           ELSE /\ pc' = [pc EXCEPT ![t] = "idle"]
                /\ result' = [result EXCEPT ![t] =
                                 Loaded(<<"environment_build", "get_execution_providers">>,
                                        execution_providers, "none")]
                /\ UNCHANGED execProviders
    /\ UNCHANGED <<loadArgs, envOk, session, envBuilds, pureVars>>

\* The SessionBuilder chain up to with_model_from_file, the metadata
\* extraction and the construction of the RSession.
BuildSession(t, fault) ==
    /\ pc[t] = "build_session"
    /\ LET built == build_session(loadArgs[t].path, execProviders[t], fault)
       IN  /\ result' = [result EXCEPT ![t] =
                            Loaded(<<"environment_build", "get_execution_providers",
                                     "build_session">>, built, fault)]
           /\ session' = [session EXCEPT ![t] = IF built.ok THEN built.value ELSE NoValue]
    /\ pc' = [pc EXCEPT ![t] = "idle"]
    /\ UNCHANGED <<loadArgs, envOk, execProviders, envBuilds, pureVars>>

\* R vectors a caller passes.
SixDoubles == Robj("double", <<1, 2, 3, 4, 5, 16777217>>, Some(<<2, 3>>))
TwoDoubles == Robj("double", <<1, -2>>, None)
TwoIntegers == Robj("integer", <<1, 2>>, None)
TwoStrings == Robj("character", <<"s", "t">>, None)

\* The named list made of (name, value) entries.
BagOf(entries) ==
    RList(Some([i \in 1..Len(entries) |-> entries[i].name]),
          [i \in 1..Len(entries) |-> entries[i].value])

\* What the engine would answer if it were run.
EngineValue(etype, shape, data) == [etype |-> etype, shape |-> shape, data |-> data]

\* Bags and engine answers for run calls on loaded sessions.
SessionBags ==
    {BagOf(<<[name |-> "a", value |-> SixDoubles], [name |-> "b", value |-> TwoDoubles]>>),
     BagOf(<<[name |-> "a", value |-> TwoIntegers]>>)}

SessionOutcomes == {[ok |-> FALSE], Ok(<<EngineValue("f32", <<2>>, <<1, 2>>)>>)}

Queried(op, res) == [op |-> op, res |-> res]

\* run(&self, inputs) on the session the thread holds.
Run(t, inputs, outcome) ==
    /\ pc[t] = "idle"
    /\ session[t] # NoValue
    /\ \E overflow_checks \in BOOLEAN :
            LET ran == run(session[t], inputs, outcome, overflow_checks)
            IN  result' = [result EXCEPT ![t] =
                            [op |-> "run", steps |-> ran.steps, res |-> ran.res]]
    /\ UNCHANGED <<pc, loadArgs, envOk, execProviders, session, envBuilds, pureVars>>

GetInputInfo(t) ==
    /\ pc[t] = "idle"
    /\ session[t] # NoValue
    /\ result' = [result EXCEPT ![t] = Queried("get_input_info", get_input_info(session[t]))]
    /\ UNCHANGED <<pc, loadArgs, envOk, execProviders, session, envBuilds, pureVars>>

GetOutputInfo(t) ==
    /\ pc[t] = "idle"
    /\ session[t] # NoValue
    /\ result' = [result EXCEPT ![t] = Queried("get_output_info", get_output_info(session[t]))]
    /\ UNCHANGED <<pc, loadArgs, envOk, execProviders, session, envBuilds, pureVars>>

GetProviders(t) ==
    /\ pc[t] = "idle"
    /\ session[t] # NoValue
    /\ result' = [result EXCEPT ![t] = Queried("get_providers", get_providers(session[t]))]
    /\ UNCHANGED <<pc, loadArgs, envOk, execProviders, session, envBuilds, pureVars>>

Init ==
    /\ call = NoValue
    /\ ret = NoValue
    /\ InitSessions

Next ==
    \E t \in Threads :
        \/ \E path \in LoadPaths, providers \in LoadRequests : LoadCall(t, path, providers)
        \/ \E built \in BOOLEAN : EnvBuildReturn(t, built)
        \/ ResolveProviders(t)
        \/ \E fault \in BuilderFaults : BuildSession(t, fault)
        \/ \E inputs \in SessionBags, outcome \in SessionOutcomes : Run(t, inputs, outcome)
        \/ GetInputInfo(t)
        \/ GetOutputInfo(t)
        \/ GetProviders(t)

Spec == Init /\ [][Next]_vars

Finished(t) == pc[t] = "idle" /\ result[t] # NoValue /\ result[t].op = "load"

NamesOf(tensors) == [i \in 1..Len(tensors) |-> tensors[i].name]

\* C8: load is atomic: it returns either a session with names, shapes,
\* providers and model path all populated, or an error and no session; a
\* path without a readable model yields ModelLoad when that step is what
\* fails, and a failed provider resolution yields Provider.
C8_LoadAtomic ==
    \A t \in Threads : Finished(t) =>
        LET r == result[t].res
            a == loadArgs[t]
        IN  /\ r.ok =>
                /\ session[t] = r.value
                /\ a.path \in DOMAIN ModelFiles
                /\ session[t].input_names = NamesOf(ModelFiles[a.path].inputs)
                /\ session[t].output_names = NamesOf(ModelFiles[a.path].outputs)
                /\ Len(session[t].input_shapes) = Len(session[t].input_names)
                /\ Len(session[t].output_shapes) = Len(session[t].output_names)
                /\ Len(session[t].providers) > 0
                /\ session[t].model_path = a.path
            /\ ~r.ok => (session[t] = NoValue /\ "value" \notin DOMAIN r)
            /\ a.path \notin DOMAIN ModelFiles => ~r.ok
            /\ ( /\ a.path \notin DOMAIN ModelFiles
                 /\ envOk[t] = "ok"
                 /\ (a.providers.some => AllRecognized(a.providers.v))
                 /\ result[t].fault = "none" ) => r.kind = "ModelLoad"
            /\ ( /\ envOk[t] = "ok"
                 /\ a.providers.some
                 /\ ~AllRecognized(a.providers.v) ) => (~r.ok /\ r.kind = "Provider")

C8_Witness ==
    /\ Finished(1) /\ Finished(2)
    /\ loadArgs[1].path = "ab.onnx" /\ result[1].res.ok
    /\ session[1].input_names = <<"a", "b">>
    /\ loadArgs[2].path = "missing.onnx"
    /\ ~result[2].res.ok /\ result[2].res.kind = "ModelLoad"
    /\ result[2].res.msg = "Failed to load model from"
    /\ session[2] = NoValue

\* C9: engine-runtime (environment) initialization is attempted at most once
\* per process, however many sessions are loaded and however many threads
\* load concurrently; no second attempt starts while or after the first runs.
C9_EnvInitAtMostOnce ==
    /\ envBuilds <= 1
    /\ Cardinality({t \in Threads : pc[t] = "env_build"}) <= 1

\* C10: a failure of environment initialization during load is non-fatal:
\* the load goes on to provider resolution and session construction and
\* does not return an error for the initialization failure itself.
C10_InitFailureNonFatal ==
    \A t \in Threads : envOk[t] = "failed" =>
        \/ pc[t] \in {"resolve", "build_session"}
        \/ /\ Finished(t)
           /\ "get_execution_providers" \in Range(result[t].steps)
           /\ result[t].res.ok \/ result[t].res.msg # "Failed to build environment"

\* The records the engine's declaration of a model calls for: name, shape
\* with -1 for an open dimension, type tag, in the engine's order.
ExpectedInfo(tensors) ==
    [i \in 1..Len(tensors) |->
        [name |-> tensors[i].name,
         shape |-> [k \in 1..Len(tensors[i].dimensions) |->
                        IF tensors[i].dimensions[k] = None THEN -1
                        ELSE tensors[i].dimensions[k].v],
         data_type |-> tensors[i].ty]]

\* What a step may do to the session a thread holds while it is not loading.
SessionFrame(t) ==
    (pc[t] = "idle" /\ pc'[t] = "idle" /\ session[t] # NoValue) =>
        /\ session'[t] = session[t]
        /\ (result'[t] # NoValue /\ result'[t].op = "get_input_info") =>
                result'[t].res = ExpectedInfo(ModelFiles[session[t].model_path].inputs)
        /\ (result'[t] # NoValue /\ result'[t].op = "get_output_info") =>
                result'[t].res = ExpectedInfo(ModelFiles[session[t].model_path].outputs)

\* C16: after load, run calls (successful or failing) and metadata queries
\* leave the session's input names, output names, declared shapes, provider
\* list and model path unchanged, and every get_input_info / get_output_info
\* call returns the same records (name, shape with -1 for dynamic dimensions,
\* type tag) in engine-declared order.
C16_SessionImmutableAfterLoad == [][\A t \in Threads : SessionFrame(t)]_vars

C16_Witness ==
    /\ session[1] # NoValue /\ session[1].model_path = "ab.onnx"
    /\ result[1] # NoValue /\ result[1].op = "run" /\ ~result[1].res.ok
    /\ session[1].input_names = <<"a", "b">>
    /\ session[1].input_shapes = <<<<2, 3>>, <<-1, 2>>>>
    /\ session[2] # NoValue /\ session[2].model_path = "ab.onnx"
    /\ result[2] # NoValue /\ result[2].op = "get_input_info"
    /\ result[2].res = <<TensorInfo("a", <<2, 3>>, "Float32"),
                         TensorInfo("b", <<-1, 2>>, "Float32")>>

\* C17: after a successful load with a provider request, the provider list
\* recorded on the session and returned by get_providers is the resolved
\* provider list of that request (["cuda"] records CUDA followed by CPU).
C17_RecordsResolvedProviders ==
    \A t \in Threads :
        (Finished(t) /\ result[t].res.ok /\ loadArgs[t].providers.some) =>
            /\ get_providers(session[t]) = execProviders[t]
            /\ loadArgs[t].providers = Some(<<N_cuda>>) =>
                    get_providers(session[t]) = <<"CUDA", "CPU">>

\* ------------------------------------------------------------------------
\* run on its own
\* ------------------------------------------------------------------------
\* The sessions load can return.
RunSessions == {new_session(ModelFiles[p], p) : p \in DOMAIN ModelFiles}

RunValues == {SixDoubles, TwoDoubles, TwoIntegers, TwoStrings}

RunEntries == [name : TensorNames, value : RunValues]

RunBags ==
    {RList(None, [i \in 1..k |-> TwoDoubles]) : k \in 0..MaxRunBag}
    \cup {BagOf(es) : es \in SeqsUpTo(RunEntries, MaxRunBag) \ {<<>>}}

EngineOutcomes ==
    {[ok |-> FALSE],
     Ok(<<EngineValue("f32", <<2>>, <<1, 2>>)>>),
     Ok(<<EngineValue("i64", <<2>>, <<1, 2>>)>>)}

InitRun ==
    /\ call \in {[fn |-> "run", self |-> s, inputs |-> b, outcome |-> o] :
                    s \in RunSessions, b \in RunBags, o \in EngineOutcomes}
    /\ ret = NoValue
    /\ InitSessions

CallRun ==
    /\ call.fn = "run"
    /\ ret = NoValue
    /\ \E overflow_checks \in BOOLEAN :
            ret' = run(call.self, call.inputs, call.outcome, overflow_checks)
    /\ UNCHANGED <<call, sessionVars>>

NextRun == CallRun

SpecRun == InitRun /\ [][NextRun]_vars

RunDone == call.fn = "run" /\ ret # NoValue

WellFormed(self) ==
    /\ Len(self.input_names) > 0
    /\ Len(self.output_names) > 0
    /\ self.model_path # ""

ExactMatch(self, b) ==
    /\ Len(b.values) > 0
    /\ b.names.some
    /\ BagNames(b) = Range(self.input_names)

\* Number of elements the declared shape of input name asks for, a dynamic
\* dimension counting as one.
DeclaredSize(self, name) ==
    LET idx == CHOOSE i \in 1..Len(self.input_names) : self.input_names[i] = name
        sh == self.input_shapes[idx]
    IN  product([k \in 1..Len(sh) |-> IF sh[k] = -1 THEN 1 ELSE sh[k]], FALSE).value

Encodable(self, b) ==
    \A i \in 1..Len(b.values) :
        /\ b.values[i].rtype = "double"
        /\ Len(b.values[i].data) = DeclaredSize(self, b.names.v[i])

AllFloat(outcome) ==
    \A i \in 1..Len(outcome.value) : outcome.value[i].etype \in {"f32", "f64"}

\* C6: on a well-formed session, with a bag that exactly matches the declared
\* inputs and whose data sizes match the shapes, and an engine that executes
\* successfully, run succeeds and returns a named bag whose names are exactly
\* the declared output names.
C6_RunReturnsDeclaredOutputs ==
    ( /\ RunDone
      /\ WellFormed(call.self)
      /\ ExactMatch(call.self, call.inputs)
      /\ Encodable(call.self, call.inputs)
      /\ call.outcome.ok
      /\ AllFloat(call.outcome) ) =>
        /\ ret.res.ok
        /\ ret.res.value.names = Some(call.self.output_names)

Pipeline ==
    <<"validate_session", "validate_inputs", "prepare_input_tensors",
      "convert_to_ort_values", "session_run", "convert_outputs_to_r">>

StepKind(step) ==
    CASE step \in {"validate_session", "validate_inputs"} -> "Validation"
      [] step \in {"prepare_input_tensors", "convert_to_ort_values"} -> "DataConversion"
      [] step = "session_run" -> "Inference"
      [] step = "convert_outputs_to_r" -> "DataConversion"

\* C7: run takes its steps in the order session check, input validation,
\* encoding, engine execution, decoding; the first failing step ends the call
\* with that step's error kind and no later step is taken; the engine is not
\* invoked unless the three earlier steps succeeded; a session with empty
\* input names, output names or model path fails with Validation before the
\* inputs are examined.
C7_PipelineOrder ==
    RunDone =>
        LET steps == ret.steps
            n == Len(steps)
        IN  /\ n \in 1..Len(Pipeline)
            /\ \A i \in 1..n : steps[i] = Pipeline[i]
            /\ ~ret.res.ok => ret.res.kind = StepKind(steps[n])
            /\ ret.res.ok => n = Len(Pipeline)
            /\ ~WellFormed(call.self) =>
                    (n = 1 /\ ~ret.res.ok /\ ret.res.kind = "Validation")
            /\ (WellFormed(call.self) /\ ~ExactMatch(call.self, call.inputs)) =>
                    (n = 2 /\ ~ret.res.ok /\ ret.res.kind = "Validation")
            /\ ( /\ WellFormed(call.self)
                 /\ ExactMatch(call.self, call.inputs)
                 /\ ~Encodable(call.self, call.inputs) ) =>
                    (n = 3 /\ ~ret.res.ok /\ ret.res.kind = "DataConversion")
            /\ "session_run" \in Range(steps) =>
                    /\ WellFormed(call.self)
                    /\ ExactMatch(call.self, call.inputs)
                    /\ Encodable(call.self, call.inputs)

\* ------------------------------------------------------------------------
\* Numeric encoding and decoding on their own
\* ------------------------------------------------------------------------
EncodeFunctions ==
    {"r_to_ndarray_f32", "r_to_ndarray_f64", "r_to_ndarray_i32", "r_to_ndarray_i64"}

\* Element values: small ones and two that 32-bit floats cannot hold.
EncodeValues == {1, -2, 16777217}

EncodeData == SeqsUpTo(EncodeValues, MaxData) \cup {<<1, 2, 3, 4, 5, 16777219>>}

\* Shapes of small dimensions and of dimensions no array can have.
EncodeShapes == SeqsUpTo((0..3) \cup {TwoPow63}, MaxRank)

\* overflow_checks: whether the build panics on integer overflow (debug
\* assertions) or wraps.
InitEncode ==
    /\ call \in {[fn |-> f, r_data |-> d, shape |-> sh, overflow_checks |-> oc] :
                    f \in EncodeFunctions, d \in EncodeData, sh \in EncodeShapes,
                    oc \in BOOLEAN}
    /\ ret = NoValue
    /\ InitSessions

CallRToNdarray ==
    /\ call.fn \in EncodeFunctions
    /\ ret = NoValue
    /\ ret' = [encoded |-> r_to_ndarray(call.fn, call.r_data, call.shape,
                                        call.overflow_checks),
               decoded |-> NoValue]
    /\ UNCHANGED <<call, sessionVars>>

Encoded == call.fn \in EncodeFunctions /\ ret # NoValue

\* Product of the dimensions, folded from the last dimension.
RECURSIVE DimProduct(_, _)
DimProduct(shape, n) == IF n = 0 THEN 1 ELSE DimProduct(shape, n - 1) * shape[n]

\* n is the product of the dimensions of shape. A product with a dimension
\* of 2^63 and no zero dimension is above every length.
EqualsProduct(n, shape) ==
    IF \E k \in 1..Len(shape) : shape[k] = 0 THEN n = 0
    ELSE IF \E k \in 1..Len(shape) : shape[k] = TwoPow63 THEN FALSE
    ELSE n = DimProduct(shape, Len(shape))

\* C11: numeric encoding (r_to_ndarray_f32 and its f64/i32/i64 siblings)
\* fails, with a DataConversion error, iff the number of data elements
\* differs from the product of the shape's dimensions; when it succeeds the
\* tensor has exactly the given shape and a flat buffer as long as that
\* product.
C11_EncodeLengthMatchesShape ==
    Encoded =>
        LET e == ret.encoded
        IN  /\ ~e.ok <=> ~EqualsProduct(Len(call.r_data), call.shape)
            /\ ~e.ok => e.kind = "DataConversion"
            /\ e.ok => /\ e.value.shape = call.shape
                       /\ EqualsProduct(Len(e.value.data), call.shape)

\* ndarray_f32_to_r / ndarray_f64_to_r applied to the array just encoded.
CallNdarrayToR ==
    /\ call.fn \in {"r_to_ndarray_f32", "r_to_ndarray_f64"}
    /\ ret # NoValue
    /\ ret.encoded.ok
    /\ ret.decoded = NoValue
    /\ ret' = [ret EXCEPT !.decoded = ndarray_to_r(call.fn, ret.encoded.value)]
    /\ UNCHANGED <<call, sessionVars>>

NextEncode == CallRToNdarray \/ CallNdarrayToR

SpecEncode == InitEncode /\ [][NextEncode]_vars

RoundTripped ==
    /\ call.fn = "r_to_ndarray_f32"
    /\ ret # NoValue
    /\ ret.decoded # NoValue

Abs(x) == IF x < 0 THEN -x ELSE x

\* y is x up to the precision of a 32-bit float (24-bit significand).
WithinF32Precision(x, y) == Abs(x - y) * 16777216 <= Abs(x)

\* C19: for a numeric array of N elements and a shape of product N, encoding
\* (r_to_ndarray_f32) then decoding (ndarray_f32_to_r) yields the same N
\* values in the same order, up to 32-bit float precision, and preserves the
\* declared shape.
C19_RoundTripKeepsValuesAndShape ==
    RoundTripped =>
        LET d == ret.decoded
        IN  /\ d.ok
            /\ Len(d.value.data) = Len(call.r_data)
            /\ \A i \in 1..Len(call.r_data) :
                    WithinF32Precision(call.r_data[i], d.value.data[i])
            /\ get_r_array_shape(d.value).value = call.shape

\* ------------------------------------------------------------------------
\* Shape validation on its own
\* ------------------------------------------------------------------------
ActualShapes == SeqsUpTo({0, 2, 3}, MaxShapeRank)

ExpectedShapes == SeqsUpTo({-1, -2, 0, 2, 3}, MaxShapeRank)

InitShape ==
    /\ call \in {[fn |-> "validate_input_data", data_shape |-> a,
                  expected_info |-> TensorInfo("test", e, "Float32")] :
                    a \in ActualShapes, e \in ExpectedShapes}
    /\ ret = NoValue
    /\ InitSessions

CallValidateInputData ==
    /\ call.fn = "validate_input_data"
    /\ ret = NoValue
    /\ ret' = validate_input_data(call.data_shape, call.expected_info)
    /\ UNCHANGED <<call, sessionVars>>

NextShape == CallValidateInputData

SpecShape == InitShape /\ [][NextShape]_vars

ShapeChecked == call.fn = "validate_input_data" /\ ret # NoValue

\* C18: validate_input_data accepts a data shape iff it has as many
\* dimensions as the TensorInfo and every dimension whose expected size is
\* not dynamic (-1) equals the actual size; a rank difference fails with
\* Validation "Shape dimension mismatch", a differing fixed dimension with
\* Validation "Shape mismatch at dimension", and a dynamic dimension accepts
\* any actual size.
C18_ShapeAcceptedIffFixedDimsEqual ==
    ShapeChecked =>
        LET a == call.data_shape
            e == call.expected_info.shape
            SameRank == Len(a) = Len(e)
            FixedEqual == \A k \in 1..Len(e) : e[k] # -1 => a[k] = e[k]
        IN  /\ ret.ok <=> (SameRank /\ FixedEqual)
            /\ ~SameRank =>
                    (~ret.ok /\ ret.kind = "Validation"
                             /\ ret.msg = "Shape dimension mismatch")
            /\ (SameRank /\ ~FixedEqual) =>
                    (~ret.ok /\ ret.kind = "Validation"
                             /\ ret.msg = "Shape mismatch at dimension")

\* ------------------------------------------------------------------------
\* Encoding of a bag (prepare_input_tensors) on its own
\* ------------------------------------------------------------------------
PrepareSessions == {new_session(ModelFiles[p], p) : p \in {"ab.onnx", "dyn.onnx"}}

ThreeDoubles == Robj("double", <<1, 2, 3>>, None)
FifteenDoubles ==
    Robj("double", <<1, 2, 3, 4, 5, 6, 7, 8, 9, 10, 11, 12, 13, 14, 15>>, Some(<<5, 3>>))
TwoLogicals == Robj("logical", <<TRUE, FALSE>>, None)

PrepareValues ==
    {SixDoubles, TwoDoubles, ThreeDoubles, FifteenDoubles, TwoIntegers, TwoStrings,
     TwoLogicals}

PrepareEntries == [name : {"a", "b", "x"}, value : PrepareValues]

PrepareBags == {BagOf(es) : es \in SeqsUpTo(PrepareEntries, MaxRunBag) \ {<<>>}}

InitPrepare ==
    /\ call \in {[fn |-> "prepare_input_tensors", self |-> s, inputs |-> b] :
                    s \in PrepareSessions, b \in PrepareBags}
    /\ ret = NoValue
    /\ InitSessions

CallPrepareInputTensors ==
    /\ call.fn = "prepare_input_tensors"
    /\ ret = NoValue
    /\ \E overflow_checks \in BOOLEAN :
            ret' = prepare_input_tensors(call.self, call.inputs, overflow_checks)
    /\ UNCHANGED <<call, sessionVars>>

NextPrepare == CallPrepareInputTensors

SpecPrepare == InitPrepare /\ [][NextPrepare]_vars

Prepared == call.fn = "prepare_input_tensors" /\ ret # NoValue

AllDeclared(self, b) == BagNames(b) \subseteq Range(self.input_names)

DeclaredShape(self, name) ==
    self.input_shapes[CHOOSE i \in 1..Len(self.input_names) : self.input_names[i] = name]

\* The shape an input is to be encoded with: the value's own shape when the
\* declared shape has a zero or dynamic dimension, the declared shape
\* otherwise.
EffectiveShape(self, name, value) ==
    LET sh == DeclaredShape(self, name)
    IN  IF \E k \in 1..Len(sh) : sh[k] \in {0, -1}
        THEN IF value.dim.some THEN value.dim.v ELSE <<Len(value.data)>>
        ELSE sh

\* C12: a numeric input is encoded with the caller value's own shape when
\* the declared shape contains a zero or a dynamic (-1) dimension, and with
\* the declared shape otherwise; a declared [-1, 3] accepts a value of shape
\* [5, 3] with 15 elements.
C12_EffectiveShape ==
    ( /\ Prepared
      /\ AllDeclared(call.self, call.inputs)
      /\ \A i \in 1..Len(call.inputs.values) : call.inputs.values[i].rtype = "double" ) =>
        LET names == call.inputs.names.v
            values == call.inputs.values
            Fits(i) == Len(values[i].data) =
                            DimProduct(EffectiveShape(call.self, names[i], values[i]),
                                       Len(EffectiveShape(call.self, names[i], values[i])))
        IN  /\ ret.ok <=> \A i \in 1..Len(values) : Fits(i)
            /\ ret.ok => \A i \in 1..Len(values) :
                    (\A j \in (i + 1)..Len(values) : names[j] # names[i]) =>
                        ret.value[names[i]].shape =
                            EffectiveShape(call.self, names[i], values[i])

\* C13: encoding classifies each value by kind: a textual value is accepted
\* and becomes a text tensor of shape [number of strings], a numeric value
\* (float or integer) is accepted and normalised to 32-bit float, and only a
\* value that is neither is rejected with a DataConversion error.
C13_EncodeByKind ==
    (Prepared /\ AllDeclared(call.self, call.inputs)) =>
        LET names == call.inputs.names.v
            values == call.inputs.values
        IN  /\ ~ret.ok => ret.kind = "DataConversion"
            /\ (\A i \in 1..Len(values) : values[i].rtype = "character") => ret.ok
            /\ (~ret.ok /\ ret.msg = "Failed to convert input to numeric data") =>
                    \E i \in 1..Len(values) :
                        /\ names[i] = ret.arg
                        /\ values[i].rtype \notin {"double", "integer", "character"}
            /\ ret.ok => \A i \in 1..Len(values) :
                    (\A j \in (i + 1)..Len(values) : names[j] # names[i]) =>
                        IF values[i].rtype = "character"
                        THEN ret.value[names[i]].shape = <<Len(values[i].data)>>
                        ELSE values[i].rtype \in {"double", "integer"}

\* ------------------------------------------------------------------------
\* Decoding of engine outputs (convert_outputs_to_r) on its own
\* ------------------------------------------------------------------------
DecodeSessions == {new_session(ModelFiles[p], p) : p \in {"ab.onnx", "dyn.onnx"}}

DecodeValues ==
    {EngineValue("f32", <<2>>, <<1, 2>>),
     EngineValue("f64", <<1>>, <<16777217>>),
     EngineValue("f32", <<1, 1>>, <<3>>),
     EngineValue("i64", <<2>>, <<1, 2>>)}

InitDecode ==
    /\ call \in {[fn |-> "convert_outputs_to_r", self |-> s, outputs |-> o] :
                    s \in DecodeSessions, o \in SeqsUpTo(DecodeValues, MaxOutputs)}
    /\ ret = NoValue
    /\ InitSessions

CallConvertOutputsToR ==
    /\ call.fn = "convert_outputs_to_r"
    /\ ret = NoValue
    /\ ret' = convert_outputs_to_r(call.self, call.outputs)
    /\ UNCHANGED <<call, sessionVars>>

NextDecode == CallConvertOutputsToR

SpecDecode == InitDecode /\ [][NextDecode]_vars

Decoded == call.fn = "convert_outputs_to_r" /\ ret # NoValue

Supported(v) == v.etype \in {"f32", "f64"}

\* C14: decoding returns the outputs under the session's declared output
\* names, in declared order, whatever the order or number of values the
\* engine returned; when a declared output is absent from the engine's result
\* the call fails with an Inference (missing output) error instead of
\* returning fewer or renamed outputs.
C14_DecodeByDeclaredNames ==
    (Decoded /\ \A i \in 1..Len(call.outputs) : Supported(call.outputs[i])) =>
        IF Len(call.outputs) < Len(call.self.output_names)
        THEN ~ret.ok /\ ret.kind = "Inference"
        ELSE ret.ok /\ ret.value.names = Some(call.self.output_names)

\* C15: each output is extracted as 32-bit float, else as 64-bit float; the
\* call fails with a DataConversion (unsupported type) error naming the
\* output only when both fail, and then returns no partial bag; on success
\* every value is a 64-bit float vector, whichever type matched.
C15_DecodeFloatOrFail ==
    Decoded =>
        LET outs == call.outputs
            AllSupported == \A i \in 1..Len(outs) : Supported(outs[i])
        IN  /\ ret.ok <=> AllSupported
            /\ ~ret.ok =>
                    /\ ret.kind = "DataConversion"
                    /\ ret.msg = "Unsupported output data type"
                    /\ "value" \notin DOMAIN ret
                    /\ \E i \in 1..Len(outs) :
                        /\ ~Supported(outs[i])
                        /\ \A j \in 1..(i - 1) : Supported(outs[j])
                        /\ i <= Len(call.self.output_names) =>
                                ret.arg = call.self.output_names[i]
            /\ ret.ok =>
                    /\ Len(ret.value.values) = Len(outs)
                    /\ \A i \in 1..Len(outs) :
                        /\ ret.value.values[i].rtype = "double"
                        /\ ret.value.values[i].data = outs[i].data

C15_Witness ==
    /\ Decoded
    /\ call.self.output_names = <<"out", "aux">>
    /\ call.outputs = <<EngineValue("f64", <<1>>, <<16777217>>),
                        EngineValue("i64", <<2>>, <<1, 2>>)>>
    /\ ~ret.ok
    /\ ret.kind = "DataConversion"
    /\ ret.arg = "aux"

====
